---- MODULE Spec2Model ----
(***************************************************************************)
(* Model of src/dashcam-mp4.js: the DashcamMP4 box parser / SEI extractor  *)
(* and DashcamHelpers.processSingleVideo.                                  *)
(*                                                                         *)
(* A buffer is a sequence of bytes; JavaScript byte offset o is element    *)
(* o + 1 of the sequence.  DataView reads outside the buffer raise a       *)
(* RangeError, which nothing in the parser catches: the model ends such a  *)
(* call with outcome "RangeError".  JavaScript numbers are doubles, so the *)
(* sums of offsets and 32-bit sizes never wrap; the generated buffers keep *)
(* every byte below 128 so that the same sums stay inside TLC's integers.  *)
(***************************************************************************)
EXTENDS Integers, Sequences, FiniteSets, TLC

VARIABLES
    buffer,       \* this.buffer / this.view
    mode,         \* entry point being exercised
    SeiMetadata,  \* DashcamHelpers' cached schema (TRUE = loaded)
    layout,       \* how the mdat content of the buffer was laid out (fixture data)
    nal,          \* decodeSei's argument (entry point decodeSei)
    pc,           \* position in the running call
    start,        \* findBox: the start argument of the running call
    offset,       \* findBox: let offset
    end,          \* findBox: the end argument
    name,         \* findBox: the name argument
    ret,          \* findBox: the value last returned
    box,          \* the boxes found so far (moov, trak, ..., mdat)
    timescale,    \* getTimescaleAndDurations: const timescale
    entryCount,   \* getTimescaleAndDurations: const entryCount
    i,            \* loop index (stts entries, then timestamps)
    pos,          \* getTimescaleAndDurations: let pos
    durations,    \* getTimescaleAndDurations: const durations
    sttsEntries,  \* the (sampleCount, sampleDelta) pairs read so far (history)
    cursor,       \* extractSeiMessages: let cursor
    seiMessages,  \* extractSeiMessages: const seiMessages
    handed,       \* byte sequences passed to seiType.decode so far (history)
    scanned,      \* the units visited by the scan loop so far (history)
    time,         \* processSingleVideo: let time
    timestamps,   \* processSingleVideo: const timestamps
    outcome,      \* how the call ended
    lastRead      \* the byte range the last step asked the DataView for

inputVars == <<buffer, mode, SeiMetadata, layout, nal>>
fbVars    == <<start, offset, end, name>>
timVars   == <<timescale, entryCount, i, pos, durations, sttsEntries>>
scanVars  == <<cursor, seiMessages, handed, scanned>>
tsVars    == <<time, timestamps>>
vars == <<inputVars, pc, fbVars, ret, box, timVars, scanVars, tsVars, outcome, lastRead>>

(***************************************************************************)
(* Bounds of the generated inputs.                                         *)
(***************************************************************************)
MaxUnits == 2
MaxEntries == 2
MaxBoxes == 2
MaxPayload == 5

(***************************************************************************)
(* Bytes and tags.                                                         *)
(***************************************************************************)
Max(a, b) == IF a > b THEN a ELSE b

moovTag == <<109, 111, 111, 118>>
trakTag == <<116, 114, 97, 107>>
mdiaTag == <<109, 100, 105, 97>>
mdhdTag == <<109, 100, 104, 100>>
minfTag == <<109, 105, 110, 102>>
stblTag == <<115, 116, 98, 108>>
sttsTag == <<115, 116, 116, 115>>
mdatTag == <<109, 100, 97, 116>>
freeTag == <<102, 114, 101, 101>>
ftypTag == <<102, 116, 121, 112>>

byteLength == Len(buffer)

\* DataView.getUint8 / getUint32 (big-endian) on offsets inside the buffer.
getUint8(o) == buffer[o + 1]
getUint32(o) ==
    buffer[o + 1] * 16777216 + buffer[o + 2] * 65536 + buffer[o + 3] * 256 + buffer[o + 4]

\* getString(o, 4): four char codes; String.fromCharCode is one-to-one on bytes.
getString(o) == <<buffer[o + 1], buffer[o + 2], buffer[o + 3], buffer[o + 4]>>

null == [offset |-> -1, size |-> -1, type |-> <<>>]

(***************************************************************************)
(* findBox, lines 18-29: the arithmetic of one loop iteration.             *)
(***************************************************************************)
\* A findBox that steps over every box by its size field.
FindBoxAdvanceBySize(off, size) == off + size

\* Lines 24 and 26: where the scan continues after a box that is not returned.
FindBoxAdvance(off, size) == IF size = 1 THEN off + 16 ELSE off + size

\* The byte index up to which one iteration's reads (line 21 getUint32(offset),
\* line 22 getString(offset + 4, 4), byte by byte) ask the DataView.  A read
\* that leaves the buffer raises at its first byte outside.
FindBoxReadHi(off) ==
    IF off + 4 > byteLength THEN off + 4
    ELSE IF off + 8 > byteLength THEN byteLength + 1
    ELSE off + 8

(***************************************************************************)
(* stripEmulationBytes, lines 175-184, and decodeSei, lines 139-169.       *)
(* JavaScript index k of a byte array is element k + 1 here.               *)
(***************************************************************************)
RECURSIVE StripFrom(_, _, _)
StripFrom(data, k, result) ==
    IF k >= Len(data) THEN result
    ELSE IF k >= 2 /\ data[k - 1] = 0 /\ data[k] = 0 /\ data[k + 1] = 3
         THEN StripFrom(data, k + 1, result)
         ELSE StripFrom(data, k + 1, Append(result, data[k + 1]))

stripEmulationBytes(data) == StripFrom(data, 0, <<>>)

\* Line 145: while (i < nal.length && nal[i] === 0x42) i++
RECURSIVE MarkerScan(_, _)
MarkerScan(n, k) ==
    IF k < Len(n) /\ n[k + 1] = 66 THEN MarkerScan(n, k + 1) ELSE k

\* Line 148: the marker test, on the index the scan stopped at.
MarkerOk(n, k) == ~(k <= 3 \/ k + 1 >= Len(n) \/ n[k + 1] # 105)

\* A payload range that runs to the end of the unit.
ProtobufDataWithTrailer(n, k) == stripEmulationBytes(SubSeq(n, k + 2, Len(n)))

\* Lines 153-155: nal.subarray(i + 1, nal.length - 1), stripped.
ProtobufData(n, k) == stripEmulationBytes(SubSeq(n, k + 2, Len(n) - 1))

\* decodeSei up to the call of the external decoder: whether seiType.decode
\* is called (line 160), and with which bytes.
DecodeSei(n, seiType) ==
    IF ~seiType \/ Len(n) < 4 THEN [call |-> FALSE, data |-> <<>>]
    ELSE LET k == MarkerScan(n, 3) IN
         IF ~MarkerOk(n, k) THEN [call |-> FALSE, data |-> <<>>]
         ELSE LET protobufData == ProtobufData(n, k) IN
              IF Len(protobufData) < 4 THEN [call |-> FALSE, data |-> <<>>]
              ELSE [call |-> TRUE, data |-> protobufData]

(***************************************************************************)
(* extractSeiMessages, lines 109-131: the arithmetic of one iteration.     *)
(***************************************************************************)
\* Line 113, with cur the cursor after line 111.
SkipUnit(cur, nalSize) == nalSize < 2 \/ cur + nalSize > byteLength

\* A skip that adds the declared length to the cursor of the length prefix.
NalAdvanceFromPrefix(cur, nalSize) ==
    IF SkipUnit(cur, nalSize) THEN cur - 4 + Max(nalSize, 0) ELSE cur + nalSize

\* Lines 114 and 130: the cursor after the unit, cur being the cursor after
\* line 111.
NalAdvance(cur, nalSize) ==
    IF SkipUnit(cur, nalSize) THEN cur + Max(nalSize, 0) ELSE cur + nalSize

\* A classification that compares the whole first byte.
IsUserDataSeiUnmasked(b0, b1) == b0 = 6 /\ b1 = 5

\* Lines 118-122: nalType === 6 && payloadType === 5.
IsUserDataSei(b0, b1) == (b0 % 32) = 6 /\ b1 = 5

(***************************************************************************)
(* processSingleVideo, line 267: time / timing.timescale.  The quotient is *)
(* kept as a fraction in lowest terms; a zero divisor gives NaN (0/0) or   *)
(* Infinity (x/0), kept as den = 0 with num 0 or 1.                        *)
(***************************************************************************)
RECURSIVE Gcd(_, _)
Gcd(a, b) == IF b = 0 THEN a ELSE Gcd(b, a % b)

Quotient(a, b) ==
    IF b = 0 THEN [num |-> IF a = 0 THEN 0 ELSE 1, den |-> 0]
    ELSE LET g == Gcd(a, b) IN [num |-> a \div g, den |-> b \div g]

\* A timestamp taken after the duration is added.
TimestampAfter(t, d, scale) == Quotient(t + d, scale)

\* Line 267-268 push the quotient before the duration d is added to time.
Timestamp(t, d, scale) == Quotient(t, scale)

\* An unrolling that pushes each entry's delta once.
UnrollOnce(ds, sampleCount, sampleDelta) ==
    IF sampleCount <= 0 THEN ds ELSE Append(ds, sampleDelta)

\* Lines 81-83: sampleDelta pushed sampleCount times.
RECURSIVE Unroll(_, _, _)
Unroll(ds, sampleCount, sampleDelta) ==
    IF sampleCount <= 0 THEN ds
    ELSE Unroll(Append(ds, sampleDelta), sampleCount - 1, sampleDelta)

(***************************************************************************)
(* Input buffers.  Files are built box by box; every choice below is a way *)
(* a real or a damaged recording can look.                                 *)
(***************************************************************************)
BE32(n) == <<n \div 16777216, (n \div 65536) % 256, (n \div 256) % 256, n % 256>>

Box(tag, content) == BE32(8 + Len(content)) \o tag \o content

RECURSIVE Flatten(_)
Flatten(ss) == IF ss = <<>> THEN <<>> ELSE Head(ss) \o Flatten(Tail(ss))

SeqsUpTo(S, n) == UNION {[1..k -> S] : k \in 0..n}

\* The timing box chain, outermost first.
Chain == <<moovTag, trakTag, mdiaTag, mdhdTag, minfTag, stblTag, sttsTag>>

\* A timing variant: which box of the chain is absent (0: none), the mdhd
\* version and timescale, the stts entries and by how much the declared
\* entry count exceeds the entries present.
TagOf(t, k) == IF t.missing = k THEN freeTag ELSE Chain[k]

MdhdContent(t) ==
    IF t.version = 0
    THEN <<0, 0, 0, 0>> \o BE32(0) \o BE32(0) \o BE32(t.ts) \o BE32(9) \o BE32(0)
    ELSE <<1, 0, 0, 0>> \o BE32(0) \o BE32(0) \o BE32(0) \o BE32(0) \o BE32(t.ts)

SttsContent(t) ==
    <<0, 0, 0, 0>> \o BE32(Len(t.entries) + t.lie)
        \o Flatten([k \in 1..Len(t.entries) |->
                       BE32(t.entries[k][1]) \o BE32(t.entries[k][2])])

Moov(t) ==
    Box(TagOf(t, 1),
      Box(TagOf(t, 2),
        Box(TagOf(t, 3),
          Box(TagOf(t, 4), MdhdContent(t))
          \o Box(TagOf(t, 5),
               Box(TagOf(t, 6),
                 Box(TagOf(t, 7), SttsContent(t)))))))

Timing0 == [missing |-> 0, version |-> 0, ts |-> 2, entries |-> <<<<2, 3>>>>, lie |-> 0]

EntryPairs == {0, 1, 2} \X {0, 3}

Timings ==
    {[Timing0 EXCEPT !.missing = k] : k \in 1..7}
    \cup {[Timing0 EXCEPT !.version = v, !.ts = s] : v \in {0, 1}, s \in {0, 1, 3}}
    \cup {[Timing0 EXCEPT !.entries = es, !.ts = s, !.lie = l] :
             es \in SeqsUpTo(EntryPairs, MaxEntries), s \in {0, 2}, l \in {0, 1}}

\* The units an mdat box is filled with: the declared length and the bytes
\* that follow the 4-byte length prefix.
Payload0 == <<8, 1, 0, 0, 3, 2>>
UnitKinds == {
    [kind |-> "sei",      declared |-> 13, bytes |-> <<6, 5, 0, 66, 66, 105>> \o Payload0 \o <<127>>],
    [kind |-> "sei",      declared |-> 10, bytes |-> <<38, 5, 0, 66, 105, 8, 1, 2, 3, 127>>],
    [kind |-> "video",    declared |-> 10, bytes |-> <<101, 5, 0, 66, 105, 8, 1, 2, 3, 127>>],
    [kind |-> "other",    declared |-> 10, bytes |-> <<6, 4, 0, 66, 105, 8, 1, 2, 3, 127>>],
    [kind |-> "nomarker", declared |-> 11, bytes |-> <<6, 5, 0, 66, 66, 7, 8, 1, 2, 3, 127>>],
    [kind |-> "tiny",     declared |-> 9,  bytes |-> <<6, 5, 0, 66, 105, 8, 1, 2, 127>>],
    [kind |-> "tiny",     declared |-> 2,  bytes |-> <<6, 5>>],
    [kind |-> "short",    declared |-> 0,  bytes |-> <<>>],
    [kind |-> "short",    declared |-> 1,  bytes |-> <<9>>],
    [kind |-> "corrupt",  declared |-> 4096, bytes |-> <<>>],
    [kind |-> "corrupt",  declared |-> 4096, bytes |-> <<9, 9>>] }

UnitBytes(u) == BE32(u.declared) \o u.bytes

MdatContent(us) == Flatten([k \in 1..Len(us) |-> UnitBytes(us[k])])

\* An mdat variant: its units and by how much the declared box size exceeds
\* the bytes present.
Mdat(m) == BE32(8 + Len(MdatContent(m.units)) + m.over) \o mdatTag \o MdatContent(m.units)

Mdat0 == [units |-> <<CHOOSE u \in UnitKinds : u.declared = 13>>, over |-> 0]

Mdats == {[units |-> us, over |-> o] : us \in SeqsUpTo(UnitKinds, MaxUnits), o \in {0, 64}}

Ftyp == Box(ftypTag, <<>>)

File(t, m, moovFirst) ==
    IF moovFirst THEN Ftyp \o Moov(t) \o Mdat(m) ELSE Ftyp \o Mdat(m) \o Moov(t)

\* Where each unit's length prefix lies in File(t, m, moovFirst).
RECURSIVE UnitOffsets(_, _)
UnitOffsets(us, at) ==
    IF us = <<>> THEN <<>>
    ELSE <<[at |-> at, kind |-> Head(us).kind, declared |-> Head(us).declared]>>
         \o UnitOffsets(Tail(us), at + Len(UnitBytes(Head(us))))

Layout(t, m, moovFirst) ==
    UnitOffsets(m.units, 8 + (IF moovFirst THEN Len(Moov(t)) ELSE 0) + 8)

\* The recordings handed to processSingleVideo.
Videos ==
    {[buffer |-> File(t, Mdat0, mf), layout |-> Layout(t, Mdat0, mf)] :
        t \in Timings, mf \in {FALSE}}
    \cup {[buffer |-> File(Timing0, m, mf), layout |-> Layout(Timing0, m, mf)] :
        m \in Mdats, mf \in BOOLEAN}
    \cup {[buffer |-> SubSeq(File(Timing0, Mdat0, TRUE), 1, n), layout |-> <<>>] :
        n \in 0..Len(File(Timing0, Mdat0, TRUE))}

\* Buffers and arguments for direct calls of findBox: short runs of boxes,
\* among them a terminator (size 0), an extended-size box (size 1) whose
\* extended field spells a box header, and boxes of sizes 2 and 4.
SmallBoxes == {
    Box(freeTag, <<>>),
    Box(moovTag, <<>>),
    Box(mdatTag, <<0, 0, 0, 0>>),
    BE32(0) \o moovTag,
    BE32(1) \o freeTag \o BE32(8) \o moovTag,
    BE32(2) \o freeTag,
    BE32(4) \o freeTag }

FindBoxBuffers == {Flatten(bs) : bs \in SeqsUpTo(SmallBoxes, MaxBoxes)}

FindBoxCalls ==
    {[buffer |-> b, start |-> s, end |-> e, name |-> n] :
        b \in FindBoxBuffers, s \in {0, 8}, e \in {0, 4, 8, 12, 16, 24, 40}, n \in {moovTag, mdatTag}}

\* Arguments for direct calls of decodeSei: a qualifying header, one more
\* byte, a run of 0x42, a candidate marker byte, a payload and a trailer.
Nals ==
    {<<6, 5>>, <<6, 5, 0>>}
    \cup {<<6, 5, 0>> \o run \o mk \o pl \o tr :
             run \in {<<>>, <<66>>, <<66, 66>>},
             mk \in {<<>>, <<105>>, <<7>>},
             pl \in SeqsUpTo({0, 3, 8}, MaxPayload),
             tr \in {<<>>, <<127>>}}

(***************************************************************************)
(* Initial states: one call of one entry point.                            *)
(***************************************************************************)
Tags == {moovTag, trakTag, mdiaTag, mdhdTag, minfTag, stblTag, sttsTag, mdatTag}

Locals ==
    /\ ret = null
    /\ box = [t \in Tags |-> null]
    /\ timescale = 0 /\ entryCount = 0 /\ i = 0 /\ pos = 0
    /\ durations = <<>> /\ sttsEntries = <<>>
    /\ cursor = 0 /\ seiMessages = <<>> /\ handed = <<>> /\ scanned = <<>>
    /\ time = 0 /\ timestamps = <<>>
    /\ outcome = "running"
    /\ lastRead = [who |-> "none", hi |-> 0]

Init ==
    /\ Locals
    /\ \/ \E v \in Videos, loaded \in BOOLEAN :
            /\ mode = "processSingleVideo" /\ pc = "processSingleVideo"
            /\ buffer = v.buffer /\ layout = v.layout /\ SeiMetadata = loaded
            /\ nal = <<>>
            /\ start = 0 /\ offset = 0 /\ end = 0 /\ name = moovTag
       \/ \E c \in FindBoxCalls :
            /\ mode = "findBox" /\ pc = "findBox"
            /\ buffer = c.buffer /\ layout = <<>> /\ SeiMetadata = TRUE
            /\ nal = <<>>
            /\ start = c.start /\ offset = c.start /\ end = c.end /\ name = c.name
       \/ \E n \in Nals, loaded \in BOOLEAN :
            /\ mode = "decodeSei" /\ pc = "decodeSei"
            /\ buffer = <<>> /\ layout = <<>> /\ SeiMetadata = loaded
            /\ nal = n
            /\ start = 0 /\ offset = 0 /\ end = 0 /\ name = moovTag

(***************************************************************************)
(* Steps shared by the actions.                                            *)
(***************************************************************************)
\* A DataView read left the buffer: the RangeError reaches the caller.
Throw(who, hi) ==
    /\ pc' = "done"
    /\ outcome' = "RangeError"
    /\ lastRead' = [who |-> who, hi |-> hi]
    /\ UNCHANGED <<fbVars, ret, box, timVars, scanVars, tsVars>>

\* this.findBox(s, e, n)
Call(s, e, n) ==
    /\ start' = s /\ offset' = s /\ end' = e /\ name' = n
    /\ pc' = "findBox"

\* The call ends with an error of processSingleVideo's own.
Fail(what) ==
    /\ pc' = "done" /\ outcome' = what
    /\ UNCHANGED <<fbVars, timVars, scanVars, tsVars>>

\* What the caller of findBox does with the returned box r.
Continue(r) ==
    IF name \in {moovTag, trakTag, mdiaTag, mdhdTag}
    THEN \* lines 46-56: a missing box makes getTimescaleAndDurations return
         \* null, and processSingleVideo throw (line 258)
         IF r = null THEN Fail("MissingTiming") /\ UNCHANGED box
         ELSE /\ box' = [box EXCEPT ![name] = r]
              /\ UNCHANGED <<timVars, scanVars, tsVars, outcome>>
              /\ IF name = moovTag THEN Call(r.offset + 8, r.offset + r.size, trakTag)
                 ELSE IF name = trakTag THEN Call(r.offset + 8, r.offset + r.size, mdiaTag)
                 ELSE IF name = mdiaTag THEN Call(r.offset + 8, r.offset + r.size, mdhdTag)
                 ELSE pc' = "mdhd" /\ UNCHANGED fbVars
    ELSE IF name \in {minfTag, stblTag, sttsTag}
    THEN \* lines 64-71: return { timescale, durations: [] }, then line 260,
         \* extractSeiMessages, line 94 getMdatInfo
         IF r = null
         THEN /\ Call(0, byteLength, mdatTag)
              /\ UNCHANGED <<box, timVars, scanVars, tsVars, outcome>>
         ELSE /\ box' = [box EXCEPT ![name] = r]
              /\ UNCHANGED <<timVars, scanVars, tsVars, outcome>>
              /\ IF name = minfTag THEN Call(r.offset + 8, r.offset + r.size, stblTag)
                 ELSE IF name = stblTag THEN Call(r.offset + 8, r.offset + r.size, sttsTag)
                 ELSE pc' = "stts" /\ UNCHANGED fbVars
    ELSE \* lines 102-107, and line 261 for the empty list
         IF r = null THEN Fail("NoTelemetry") /\ UNCHANGED box
         ELSE /\ box' = [box EXCEPT ![name] = r]
              /\ cursor' = r.offset + 8
              /\ pc' = "scan"
              /\ UNCHANGED <<fbVars, timVars, seiMessages, handed, scanned, tsVars, outcome>>

\* findBox returns r.
Return(r) ==
    /\ ret' = r
    /\ lastRead' = [who |-> "findBox", hi |-> FindBoxReadHi(offset)]
    /\ IF mode = "findBox"
       THEN /\ pc' = "done" /\ outcome' = "returned"
            /\ UNCHANGED <<fbVars, box, timVars, scanVars, tsVars>>
       ELSE Continue(r)

(***************************************************************************)
(* Actions.                                                                *)
(***************************************************************************)
\* processSingleVideo, lines 249-257: the schema check, then
\* getTimescaleAndDurations' first findBox.
ProcessSingleVideo ==
    /\ pc = "processSingleVideo"
    /\ IF ~SeiMetadata
       THEN /\ pc' = "done" /\ outcome' = "NotInitialized"
            /\ UNCHANGED fbVars
       ELSE /\ Call(0, byteLength, moovTag)
            /\ UNCHANGED outcome
    /\ UNCHANGED <<inputVars, ret, box, timVars, scanVars, tsVars, lastRead>>

\* findBox, lines 20-27: one iteration of the while loop.
FindBoxIteration ==
    /\ pc = "findBox"
    /\ offset < end
    /\ UNCHANGED inputVars
    /\ IF offset + 8 > byteLength
       THEN Throw("findBox", FindBoxReadHi(offset))
       ELSE LET size == getUint32(offset)
                type == getString(offset + 4)
            IN  IF size = 0 THEN Return(null)
                ELSE IF size # 1 /\ type = name
                THEN Return([offset |-> offset, size |-> size, type |-> type])
                ELSE /\ offset' = FindBoxAdvance(offset, size)
                     /\ lastRead' = [who |-> "findBox", hi |-> FindBoxReadHi(offset)]
                     /\ UNCHANGED <<pc, start, end, name, ret, box, timVars,
                                    scanVars, tsVars, outcome>>

\* findBox, lines 20 and 28: the loop condition fails, return null.
FindBoxNotFound ==
    /\ pc = "findBox"
    /\ offset >= end
    /\ UNCHANGED inputVars
    /\ ret' = null
    /\ UNCHANGED lastRead
    /\ IF mode = "findBox"
       THEN /\ pc' = "done" /\ outcome' = "returned"
            /\ UNCHANGED <<fbVars, box, timVars, scanVars, tsVars>>
       ELSE Continue(null)

\* getTimescaleAndDurations, lines 58-64: the mdhd fields, then findBox minf.
ReadMdhd ==
    /\ pc = "mdhd"
    /\ UNCHANGED inputVars
    /\ LET mdhdOffset == box[mdhdTag].offset + 8
           mdia == box[mdiaTag]
       IN  IF mdhdOffset >= byteLength
           THEN Throw("getTimescaleAndDurations", mdhdOffset + 1)
           ELSE LET version == getUint8(mdhdOffset)
                    at == IF version = 0 THEN mdhdOffset + 12 ELSE mdhdOffset + 20
                IN  IF at + 4 > byteLength
                    THEN Throw("getTimescaleAndDurations", at + 4)
                    ELSE /\ timescale' = getUint32(at)
                         /\ lastRead' = [who |-> "getTimescaleAndDurations", hi |-> at + 4]
                         /\ Call(mdia.offset + 8, mdia.offset + mdia.size, minfTag)
                         /\ UNCHANGED <<ret, box, entryCount, i, pos, durations,
                                        sttsEntries, scanVars, tsVars, outcome>>

\* getTimescaleAndDurations, lines 73-76: the stts entry count.
ReadSttsHeader ==
    /\ pc = "stts"
    /\ UNCHANGED inputVars
    /\ LET sttsOffset == box[sttsTag].offset + 8 IN
       IF sttsOffset + 8 > byteLength
       THEN Throw("getTimescaleAndDurations", sttsOffset + 8)
       ELSE /\ entryCount' = getUint32(sttsOffset + 4)
            /\ pos' = sttsOffset + 8
            /\ i' = 0
            /\ durations' = <<>>
            /\ pc' = "entries"
            /\ lastRead' = [who |-> "getTimescaleAndDurations", hi |-> sttsOffset + 8]
            /\ UNCHANGED <<fbVars, ret, box, timescale, sttsEntries, scanVars, tsVars, outcome>>

\* getTimescaleAndDurations, lines 78-85: one iteration of the entry loop.
ReadSttsEntry ==
    /\ pc = "entries"
    /\ i < entryCount
    /\ UNCHANGED inputVars
    /\ IF pos + 8 > byteLength
       THEN Throw("getTimescaleAndDurations",
                  IF pos + 4 > byteLength THEN pos + 4 ELSE pos + 8)
       ELSE LET sampleCount == getUint32(pos)
                sampleDelta == getUint32(pos + 4)
            IN  /\ durations' = Unroll(durations, sampleCount, sampleDelta)
                /\ sttsEntries' = Append(sttsEntries, <<sampleCount, sampleDelta>>)
                /\ pos' = pos + 8
                /\ i' = i + 1
                /\ lastRead' = [who |-> "getTimescaleAndDurations", hi |-> pos + 8]
                /\ UNCHANGED <<pc, fbVars, ret, box, timescale, entryCount, scanVars,
                               tsVars, outcome>>

\* getTimescaleAndDurations, line 87, then processSingleVideo line 260 and
\* extractSeiMessages line 102: findBox mdat.
ReturnTiming ==
    /\ pc = "entries"
    /\ i >= entryCount
    /\ Call(0, byteLength, mdatTag)
    /\ UNCHANGED <<inputVars, ret, box, timVars, scanVars, tsVars, outcome, lastRead>>

\* extractSeiMessages, lines 109-131: one iteration of the unit loop.  The
\* external decoder (seiType.decode, toObject) either gives an object or
\* throws, which decodeSei catches (line 166); a record keeps the bytes it
\* was decoded from and the offset of its unit.
mdatEnd == box[mdatTag].offset + box[mdatTag].size

ScanUnit ==
    /\ pc = "scan"
    /\ cursor + 4 <= mdatEnd
    /\ UNCHANGED inputVars
    /\ IF cursor + 4 > byteLength
       THEN Throw("extractSeiMessages", cursor + 4)
       ELSE LET nalSize == getUint32(cursor)
                cur == cursor + 4
                skip == SkipUnit(cur, nalSize)
                sei == ~skip /\ IsUserDataSei(getUint8(cur), getUint8(cur + 1))
                decoded == IF sei THEN DecodeSei(SubSeq(buffer, cur + 1, cur + nalSize), SeiMetadata)
                           ELSE [call |-> FALSE, data |-> <<>>]
                record == [at |-> cursor, data |-> decoded.data]
            IN  /\ cursor' = NalAdvance(cur, nalSize)
                /\ scanned' = Append(scanned, [at |-> cursor, declared |-> nalSize,
                                               skipped |-> skip, sei |-> sei])
                /\ lastRead' = [who |-> "extractSeiMessages",
                                hi |-> IF skip THEN cur ELSE cur + 2]
                /\ IF decoded.call
                   THEN /\ handed' = Append(handed, record)
                        /\ \E ok \in BOOLEAN :
                             seiMessages' = IF ok THEN Append(seiMessages, record)
                                            ELSE seiMessages
                   ELSE UNCHANGED <<handed, seiMessages>>
                /\ UNCHANGED <<pc, fbVars, ret, box, timVars, tsVars, outcome>>

\* extractSeiMessages, line 133, then processSingleVideo lines 261-265.
ReturnSeiMessages ==
    /\ pc = "scan"
    /\ cursor + 4 > mdatEnd
    /\ UNCHANGED <<inputVars, ret, box, lastRead, fbVars, scanVars>>
    /\ IF Len(seiMessages) = 0
       THEN /\ pc' = "done" /\ outcome' = "NoTelemetry"
            /\ UNCHANGED <<timVars, tsVars>>
       ELSE /\ pc' = "timestamps"
            /\ i' = 0 /\ time' = 0 /\ timestamps' = <<>>
            /\ UNCHANGED <<timescale, entryCount, pos, durations, sttsEntries, outcome>>

\* processSingleVideo, lines 266-269: one iteration of the timestamp loop.
BuildTimestamp ==
    /\ pc = "timestamps"
    /\ i < Len(durations)
    /\ timestamps' = Append(timestamps, Timestamp(time, durations[i + 1], timescale))
    /\ time' = time + durations[i + 1]
    /\ i' = i + 1
    /\ UNCHANGED <<inputVars, pc, fbVars, ret, box, timescale, entryCount, pos,
                   durations, sttsEntries, scanVars, outcome, lastRead>>

\* processSingleVideo, lines 271-277: the result.
ReturnResult ==
    /\ pc = "timestamps"
    /\ i >= Len(durations)
    /\ pc' = "done" /\ outcome' = "result"
    /\ UNCHANGED <<inputVars, fbVars, ret, box, timVars, scanVars, tsVars, lastRead>>

\* decodeSei, lines 139-169, called on its own.
DecodeSeiCall ==
    /\ pc = "decodeSei"
    /\ LET decoded == DecodeSei(nal, SeiMetadata)
           record == [at |-> 0, data |-> decoded.data]
       IN  IF decoded.call
           THEN /\ handed' = Append(handed, record)
                /\ \E ok \in BOOLEAN :
                     seiMessages' = IF ok THEN Append(seiMessages, record) ELSE seiMessages
           ELSE UNCHANGED <<handed, seiMessages>>
    /\ pc' = "done" /\ outcome' = "returned"
    /\ UNCHANGED <<inputVars, fbVars, ret, box, timVars, cursor, scanned, tsVars, lastRead>>

Next ==
    \/ ProcessSingleVideo
    \/ FindBoxIteration
    \/ FindBoxNotFound
    \/ ReadMdhd
    \/ ReadSttsHeader
    \/ ReadSttsEntry
    \/ ReturnTiming
    \/ ScanUnit
    \/ ReturnSeiMessages
    \/ BuildTimestamp
    \/ ReturnResult
    \/ DecodeSeiCall

Spec == Init /\ [][Next]_vars

\* Each call runs to its end: the parser is synchronous, nothing can suspend it.
FairSpec == Spec /\ WF_vars(Next)

(***************************************************************************)
(* Properties.                                                             *)
(***************************************************************************)
Done == pc = "done"

InVideo == mode = "processSingleVideo"

\* The units of the fixture that the scan loop has visited.
Visited(at) == \E k \in 1..Len(scanned) : scanned[k].at = at

HandedAt(at) == \E k \in 1..Len(handed) : handed[k].at = at

\* C1: a unit whose declared length runs past the end of the buffer is
\* skipped without an error, and a valid, decodable unit that follows it
\* inside the mdat box is still scanned and reaches the decoder.
C1_CorruptUnitThenValidUnit ==
    (InVideo /\ Done) =>
        \A k \in 1..(Len(layout) - 1) :
            (/\ layout[k].kind = "corrupt"
             /\ Visited(layout[k].at)
             /\ layout[k + 1].kind = "sei")
            => (outcome # "RangeError" /\ HandedAt(layout[k + 1].at))

\* C2: with the schema loaded, processSingleVideo ends in one of three ways
\* only: the missing-timing error (a box of the chain moov, trak, mdia, mdhd
\* was not found), the no-telemetry error (no record), or a result.
C2_ThreeOutcomes ==
    (InVideo /\ SeiMetadata /\ Done) =>
        /\ outcome \in {"MissingTiming", "NoTelemetry", "result"}
        /\ outcome = "MissingTiming" =>
              \E t \in {moovTag, trakTag, mdiaTag, mdhdTag} : box[t] = null
        /\ outcome = "NoTelemetry" => seiMessages = <<>>
        /\ outcome = "result" => seiMessages # <<>>

\* C3: no read made by getTimescaleAndDurations or extractSeiMessages (the
\* mdhd and stts fields, the unit lengths and header bytes) asks for a byte
\* at or beyond the length of the buffer.
C3_ReadsInsideBuffer ==
    lastRead.who \in {"getTimescaleAndDurations", "extractSeiMessages"}
        => lastRead.hi <= byteLength

\* C4: findBox(start, end, name) never reads a byte at an index >= end, and
\* a header that crosses end or the end of the buffer gives null, not an
\* error.
C4_FindBoxReadsInsideRegion ==
    (mode = "findBox" /\ lastRead.who = "findBox") =>
        /\ lastRead.hi <= end
        /\ lastRead.hi <= byteLength
        /\ outcome # "RangeError"

\* The reference walk of C5, on the arguments of the running call.  A read
\* that leaves the buffer has no result: raised.
raised == [offset |-> -2, size |-> -2, type |-> <<>>]

RECURSIVE ReferenceWalk(_)
ReferenceWalk(at) ==
    IF at >= end THEN null
    ELSE IF at + 8 > byteLength THEN raised
    ELSE LET size == getUint32(at)
             tag == SubSeq(buffer, at + 5, at + 8)
         IN  CASE size = 0 -> null
               [] size = 1 -> ReferenceWalk(at + 16)
               [] size > 1 /\ tag = name -> [offset |-> at, size |-> size, type |-> tag]
               [] OTHER -> ReferenceWalk(at + size)

\* C5: findBox(start, end, name) returns what the reference walk gives: size
\* 0 stops with not-found whatever the tag, size 1 advances by 16 without
\* comparing the tag, the first box whose tag is name is returned, any other
\* box is stepped over by its size, reaching end gives not-found.
C5_FindBoxIsReferenceWalk ==
    (mode = "findBox" /\ Done) =>
        (IF outcome = "RangeError" THEN raised ELSE ret) = ReferenceWalk(start)

\* A box returned from behind an extended-size box whose extended field
\* spells the header of a box named name.
C5_Witness ==
    /\ mode = "findBox" /\ Done /\ outcome = "returned"
    /\ ret # null
    /\ start + 16 <= byteLength
    /\ getUint32(start) = 1
    /\ SubSeq(buffer, start + 13, start + 16) = name
    /\ ret.offset >= start + 16

\* The stts entries as they lie in the buffer, and their run-length expansion.
SttsOffset == box[sttsTag].offset + 8
SttsCount(k) == getUint32(SttsOffset + 8 * k)
SttsDelta(k) == getUint32(SttsOffset + 8 * k + 4)

RECURSIVE SamplesBefore(_)
SamplesBefore(k) == IF k <= 1 THEN 0 ELSE SamplesBefore(k - 1) + SttsCount(k - 1)

EntryOfSample(j, n) ==
    CHOOSE k \in 1..n : SamplesBefore(k) < j /\ j <= SamplesBefore(k) + SttsCount(k)

\* getTimescaleAndDurations has returned, having found the stts box.
TimingReturned == InVideo /\ box[sttsTag] # null /\ name = mdatTag

\* C6: when the stts box is found, the durations returned are its entries
\* expanded: d_1 c_1 times, then d_2 c_2 times, ..., so the length is the
\* sum of the sample counts and a count of 0 adds nothing.
C6_DurationsAreRunLengthExpansion ==
    TimingReturned =>
        LET n == getUint32(SttsOffset + 4) IN
        /\ Len(durations) = SamplesBefore(n + 1)
        /\ \A j \in 1..Len(durations) : durations[j] = SttsDelta(EntryOfSample(j, n))

C6_Witness ==
    /\ TimingReturned
    /\ getUint32(SttsOffset + 4) = 2
    /\ SttsCount(1) = 0
    /\ SttsCount(2) = 2
    /\ Len(durations) = 2

\* Sums of durations, and the order of quotients.  NaN compares false with
\* everything; Infinity is above every finite quotient.
RECURSIVE SumFirst(_, _)
SumFirst(ds, k) == IF k <= 0 THEN 0 ELSE SumFirst(ds, k - 1) + ds[k]

IsNaN(q) == q.den = 0 /\ q.num = 0
IsZero(q) == q.den # 0 /\ q.num = 0
Less(p, q) ==
    /\ ~IsNaN(p) /\ ~IsNaN(q)
    /\ IF p.den = 0 THEN FALSE
       ELSE IF q.den = 0 THEN TRUE
       ELSE p.num * q.den < q.num * p.den
LessEq(p, q) == ~IsNaN(p) /\ ~IsNaN(q) /\ ~Less(q, p)

TimestampsBuilt == InVideo /\ Done /\ outcome = "result"

TimestampsAreQuotients ==
    /\ Len(timestamps) = Len(durations)
    /\ \A k \in 1..Len(timestamps) :
          timestamps[k] = Quotient(SumFirst(durations, k - 1), timescale)

\* C7 as stated: the timestamps are as many as the durations, the i-th is
\* (sum of the first i durations) / timescale, the first is 0 when there is
\* one, and each timestamp is greater than the one before it.
C7_TimestampsStrictlyIncreasing ==
    TimestampsBuilt =>
        /\ TimestampsAreQuotients
        /\ durations # <<>> => IsZero(timestamps[1])
        /\ \A k \in 1..(Len(timestamps) - 1) : Less(timestamps[k], timestamps[k + 1])

\* C7 as amended: the same, with the first timestamp 0 and the order only
\* for a timescale other than 0, and each timestamp at least the one before
\* it (a sample delta of 0 repeats a timestamp).
C7_TimestampsNonDecreasing ==
    TimestampsBuilt =>
        /\ TimestampsAreQuotients
        /\ (durations # <<>> /\ timescale # 0) => IsZero(timestamps[1])
        /\ timescale # 0 =>
              \A k \in 1..(Len(timestamps) - 1) : LessEq(timestamps[k], timestamps[k + 1])

C7_Witness ==
    /\ TimestampsBuilt
    /\ timescale # 0
    /\ Len(timestamps) >= 3
    /\ \E k \in 1..(Len(timestamps) - 1) : timestamps[k] = timestamps[k + 1]
    /\ \E k \in 1..(Len(timestamps) - 1) : Less(timestamps[k], timestamps[k + 1])

\* The bytes of the unit a decoder call was made for.
UnitOf(h) ==
    IF mode = "decodeSei" THEN nal
    ELSE SubSeq(buffer, h.at + 5, h.at + 4 + getUint32(h.at))

\* JavaScript index k of unit u (element k + 1).
At(u, k) == u[k + 1]

\* The index just after the run of 0x42 bytes that starts at index 3.
RunEnd(u) ==
    CHOOSE r \in 3..Len(u) :
        /\ \A k \in 3..(r - 1) : At(u, k) = 66
        /\ r < Len(u) => At(u, r) # 66

\* The indices of u after the marker at r and before the final byte whose
\* byte is not a 0x03 that follows two 0x00 bytes.
Kept(u, r) ==
    {k \in (r + 1)..(Len(u) - 2) :
        ~(At(u, k) = 3 /\ At(u, k - 1) = 0 /\ At(u, k - 2) = 0)}

KeptBytes(u, r) ==
    [p \in 1..Cardinality(Kept(u, r)) |->
        At(u, CHOOSE k \in Kept(u, r) : Cardinality({j \in Kept(u, r) : j <= k}) = p)]

\* C8: bytes reach the external decoder only for a unit whose run of 0x42
\* from index 3 is not empty and is followed by 0x69; the bytes are those
\* after the 0x69 up to but without the final byte, less every 0x03 that
\* follows two 0x00 bytes, in order; and never fewer than 4 bytes.
C8_HandedBytes ==
    \A n \in 1..Len(handed) :
        LET u == UnitOf(handed[n])
            r == RunEnd(u)
        IN  /\ r > 3
            /\ r < Len(u)
            /\ At(u, r) = 105
            /\ handed[n].data = KeptBytes(u, r)
            /\ Len(handed[n].data) >= 4

C8_Witness ==
    /\ mode = "decodeSei" /\ Done
    /\ Len(handed) = 1
    /\ Len(handed[1].data) < Len(nal) - RunEnd(nal) - 2

\* A scanned unit, read from the buffer: it fits, and its two header bytes
\* classify it as user-data SEI.
Fits(u) == u.declared >= 2 /\ u.at + 4 + u.declared <= byteLength

Qualifies(u) ==
    /\ Fits(u)
    /\ buffer[u.at + 5] % 32 = 6
    /\ buffer[u.at + 6] = 5

\* The offsets of the scanned units that qualify and whose bytes pass
\* decodeSei's marker and length tests, in scan order.
RECURSIVE DecoderCalls(_)
DecoderCalls(k) ==
    IF k = 0 THEN <<>>
    ELSE LET u == scanned[k]
             rest == DecoderCalls(k - 1)
         IN  IF Qualifies(u)
                /\ DecodeSei(SubSeq(buffer, u.at + 5, u.at + 4 + u.declared), TRUE).call
             THEN Append(rest, u.at)
             ELSE rest

\* s is t with some elements left out, order kept.
RECURSIVE IsSubSeq(_, _)
IsSubSeq(sub, t) ==
    IF sub = <<>> THEN TRUE
    ELSE IF t = <<>> THEN FALSE
    ELSE IF Head(sub) = Head(t) THEN IsSubSeq(Tail(sub), Tail(t))
    ELSE IsSubSeq(sub, Tail(t))

\* C9: the scan walks the mdat content unit by unit, the cursor always moving
\* on by the declared length; the decoder is called, in scan order, for
\* exactly the fitting units of length >= 2 whose first byte & 0x1F is 6 and
\* second byte is 5 (and whose bytes decodeSei accepts), and the records are
\* those of these calls that gave a result, in increasing order of offset.
C9_RecordsInScanOrder ==
    (InVideo /\ box[mdatTag] # null) =>
        /\ \A k \in 1..Len(scanned) :
              /\ scanned[k].at = IF k = 1 THEN box[mdatTag].offset + 8
                                 ELSE scanned[k - 1].at + 4 + scanned[k - 1].declared
              /\ scanned[k].declared = getUint32(scanned[k].at)
        /\ (scanned # <<>> /\ outcome # "RangeError") =>
              cursor = scanned[Len(scanned)].at + 4 + scanned[Len(scanned)].declared
        /\ [k \in 1..Len(handed) |-> handed[k].at] = DecoderCalls(Len(scanned))
        /\ IsSubSeq(seiMessages, handed)
        /\ \A k \in 1..(Len(seiMessages) - 1) : seiMessages[k].at < seiMessages[k + 1].at

\* Two units scanned, the first skipped or not qualifying, the second one
\* with the nal type behind flag bits, decoded into the only record.
C9_Witness ==
    /\ InVideo /\ Done /\ outcome = "result"
    /\ Len(scanned) = 2
    /\ ~Qualifies(scanned[1])
    /\ buffer[scanned[2].at + 5] = 38
    /\ Len(seiMessages) = 1
    /\ seiMessages[1].at = scanned[2].at

\* One iteration of findBox's loop (the same call goes on), and one of
\* extractSeiMessages' loop.
FindBoxLoops == pc = "findBox" /\ pc' = "findBox" /\ name' = name
ScanLoops == pc = "scan" /\ pc' = "scan"

\* C10: the loops of findBox and extractSeiMessages end: each iteration
\* moves the cursor forward, by at least 2 in findBox (size 0 ends the loop)
\* and by at least 4 in extractSeiMessages (also for lengths 0 and 1), the
\* loop bound staying as it is, so every call returns or fails.
C10_LoopsTerminate ==
    /\ [][/\ FindBoxLoops => (offset' >= offset + 2 /\ end' = end)
          /\ ScanLoops => (cursor' >= cursor + 4 /\ mdatEnd' = mdatEnd)]_vars
    /\ <>Done

C10_Witness ==
    /\ Done
    /\ \E k \in 1..Len(scanned) : scanned[k].declared < 2
    /\ Len(scanned) >= 2

====
